---------------------------- MODULE Spec2Model ----------------------------
(* A model of ivy's arbitrary-precision sqrt / asin / acos / atan          *)
(* (value/sqrt.go, value/asin.go) and of the )get nesting counter of       *)
(* parse/special.go.                                                       *)
(*                                                                         *)
(* A *big.Float is an address into `heap`; every big.Float method writes   *)
(* its receiver's cell.  A float value is a record [m, e] standing for     *)
(* m * 2^e with Prec bits of mantissa, rounded to nearest even as          *)
(* math/big does by default.  Signed zeros are not distinguished.          *)
EXTENDS Integers, Sequences, FiniteSets

\* Mantissa bits of every float (conf.FloatPrec(), 256 in ivy; scaled down).
Prec == 12
\* Inputs are the floats nearest to n / InDen for n in -MaxNum .. MaxNum.
InDen == 8
MaxNum == 20
\* Cap on the runDepth counter of the )get model (top-level failures leak).
MaxLeak == 13

---------------------------------------------------------------------------
(* big.Float arithmetic *)

Pow2(k) == 2 ^ k

AbsInt(n) == IF n < 0 THEN -n ELSE n

Zero == [m |-> 0, e |-> 0]

\* The float nearest (ties to even) to sgn * (a / d) * 2^e, for a >= 0, d > 0.
RECURSIVE Norm(_, _, _, _)
Norm(sgn, a, d, e) ==
  IF a = 0 THEN Zero
  ELSE IF a >= d * Pow2(Prec) THEN Norm(sgn, a, 2 * d, e + 1)
  ELSE IF a < d * Pow2(Prec - 1) THEN Norm(sgn, 2 * a, d, e - 1)
  ELSE LET q == a \div d
           r == a % d
           up == (2 * r > d) \/ (2 * r = d /\ q % 2 = 1)
           q1 == IF up THEN q + 1 ELSE q
       IN IF q1 = Pow2(Prec)
          THEN [m |-> sgn * Pow2(Prec - 1), e |-> e + 1]
          ELSE [m |-> sgn * q1, e |-> e]

SgnInt(n) == IF n < 0 THEN -1 ELSE IF n > 0 THEN 1 ELSE 0

FromRat(n, d) == Norm(SgnInt(n), AbsInt(n), d, 0)

\* (*Float).SetInt64
FromInt(n) == FromRat(n, 1)

\* (*Float).Sign
Sign(x) == SgnInt(x.m)

\* (*Float).Neg
Neg(x) == [m |-> -x.m, e |-> x.e]

\* (*Float).Abs
Abs(x) == [m |-> AbsInt(x.m), e |-> x.e]

\* The rounded product.
Product(x, y) ==
  Norm(SgnInt(x.m) * SgnInt(y.m), AbsInt(x.m) * AbsInt(y.m), 1, x.e + y.e)

\* The rounded quotient, for y # 0.
Quotient(x, y) ==
  Norm(SgnInt(x.m) * SgnInt(y.m), AbsInt(x.m), AbsInt(y.m), x.e - y.e)

\* The rounded sum.  An operand more than Prec + 1 binary places below the
\* other is under a quarter of its last place and rounds away.
Sum(x, y) ==
  IF x.m = 0 THEN y
  ELSE IF y.m = 0 THEN x
  ELSE IF x.e - y.e >= Prec + 2 THEN x
  ELSE IF y.e - x.e >= Prec + 2 THEN y
  ELSE LET e == IF x.e < y.e THEN x.e ELSE y.e
           s == x.m * Pow2(x.e - e) + y.m * Pow2(y.e - e)
       IN Norm(SgnInt(s), AbsInt(s), 1, e)

\* The methods proper.  Go evaluates the operands of a call once, before
\* the call: p is bound to their values.

\* (*Float).Mul
Mul(x, y) == CHOOSE r \in {Product(p[1], p[2]) : p \in {<<x, y>>}} : TRUE

\* (*Float).Quo
Quo(x, y) == CHOOSE r \in {Quotient(p[1], p[2]) : p \in {<<x, y>>}} : TRUE

\* (*Float).Add
Add(x, y) == CHOOSE r \in {Sum(p[1], p[2]) : p \in {<<x, y>>}} : TRUE

\* (*Float).Sub
Sub(x, y) == Add(x, Neg(y))

\* (*Float).Cmp: -1, 0, +1
Cmp(x, y) == Sign(Sub(x, y))

\* (*Float).MantExp: x = mant * 2^exp with 0.5 <= |mant| < 1
MantOf(x) == IF x.m = 0 THEN Zero ELSE [m |-> x.m, e |-> -Prec]
ExpOf(x) == IF x.m = 0 THEN 0 ELSE x.e + Prec

\* (*Float).SetMantExp: mant * 2^exp
SetMantExp(mant, exp) == IF mant.m = 0 THEN Zero ELSE [m |-> mant.m, e |-> mant.e + exp]

\* Go's integer division truncates toward zero.
GoDiv(a, b) == SgnInt(a) * SgnInt(b) * (AbsInt(a) \div AbsInt(b))

---------------------------------------------------------------------------
(* The package's shared constants, at the working precision *)

floatOneV == FromInt(1)
floatMinusOneV == FromInt(-1)
floatTwoV == FromInt(2)
floatPiV == FromRat(355, 113)

\* Addresses of the shared constants in the heap.
floatOne == 1
floatMinusOne == 2
floatTwo == 3
floatPi == 4
\* Address of the argument evalFloatFunc hands to fn.
ArgAddr == 5

ConstHeap == <<floatOneV, floatMinusOneV, floatTwoV, floatPiV>>

---------------------------------------------------------------------------
(* State *)

VARIABLES
  heap,      \* big.Float cells, by address
  stack,     \* activation records, innermost last
  ret,       \* address returned by the activation that just ended (0: none)
  cur,       \* the evaluation in hand: [fn, arg, res, err, done]
  last,      \* the evaluation completed before it, when the two form a pair
  called,    \* functions entered during the evaluation in hand
  nLoops,    \* newLoop calls during the evaluation in hand
  nEuler,    \* near-one rewrites during the evaluation in hand
  runDepth,  \* parse.runDepth
  files,     \* runFromFile activations whose defer is registered, innermost last
  panicking  \* the panic in flight in the parser: "none", "error" (a
             \* value.Error) or "other"; "crashed" once one left the program

mathVars == <<heap, stack, ret, cur, last, called, nLoops, nEuler>>
getVars == <<runDepth, files, panicking>>
vars == <<mathVars, getVars>>

None == [m |-> 0, e |-> 1]

NoEval == [fn |-> "none", arg |-> Zero, res |-> None, err |-> "", done |-> TRUE]

\* The floats next to 1 on either side, just above 0.5 and just below 1.5.
EdgeInputs ==
  {FromRat(Pow2(Prec) - 1, Pow2(Prec)), FromRat(Pow2(Prec - 1) + 1, Pow2(Prec - 1)),
   FromRat(Pow2(Prec - 1) + 1, Pow2(Prec)), FromRat(3 * Pow2(Prec - 2) - 1, Pow2(Prec - 1))}

Inputs ==
  {FromRat(n, InDen) : n \in -MaxNum .. MaxNum}
    \cup EdgeInputs \cup {Neg(v) : v \in EdgeInputs}

Funcs == {"floatSqrt", "floatAsin", "floatAcos", "floatAtan"}

Top == stack[Len(stack)]

Running(fn, pc) == stack # <<>> /\ Top.fn = fn /\ Top.pc = pc

\* Writing a cell: every big.Float method stores into its receiver.
W(h, dst, v) == [h EXCEPT ![dst] = v]

\* newF(): a fresh zero cell; its address is Len(h) + 1.
newF(h) == Append(h, Zero)

SetTop(f) == [stack EXCEPT ![Len(stack)] = f]

Push(f, g) == Append(SetTop(f), g)

Pop == SubSeq(stack, 1, Len(stack) - 1)

\* An activation returns the cell at addr.  The outermost return is
\* evalFloatFunc's: the value becomes the evaluation's result.
Return(h, addr) ==
  /\ heap' = h
  /\ stack' = Pop
  /\ ret' = addr
  /\ cur' = IF Len(stack) = 1 THEN [cur EXCEPT !.res = h[addr], !.done = TRUE] ELSE cur

\* value.Errorf panics; nothing in the package recovers, so every activation
\* of the evaluation is abandoned and no value is produced.
Errorf(h, msg) ==
  /\ heap' = h
  /\ stack' = <<>>
  /\ ret' = 0
  /\ cur' = [cur EXCEPT !.err = msg, !.done = TRUE]

---------------------------------------------------------------------------
(* The convergence loop controller *)

maxIterations(extra) == 10 + extra * Prec

newLoop(name, x, extra) ==
  [name |-> name, start |-> x, extra |-> extra, prevZ |-> Zero, i |-> 0]

\* The resolution of z at the target precision: the working precision
\* carries `extra` guard bits, so 2^extra units in z's last place.
Resolution(z, extra) == [m |-> Pow2(Prec - 1), e |-> z.e + extra - (Prec - 1)]

\* terminate(z): "stop" once an earlier iterate exists and |z - prevZ| is
\* below the resolution, "fail" when the iteration cap is hit, else "go".
terminate(l, z) ==
  LET delta == Abs(Sub(l.prevZ, z))
  IN IF l.i > 0 /\ (Sign(delta) = 0 \/ Cmp(delta, Resolution(z, l.extra)) < 0)
     THEN "stop"
     ELSE IF l.i + 1 >= maxIterations(l.extra) THEN "fail"
     ELSE "go"

advance(l, z) == [l EXCEPT !.prevZ = z, !.i = l.i + 1]

DidNotConverge(l) == l.name \o ": did not converge"

\* The tail of every loop body: if loop.terminate(z) { break }, then the
\* statements that advance the series (hAdv is the heap after them), and
\* after the loop, return z.
LoopEnd(h, hAdv, f, z) ==
  LET t == terminate(f.loop, h[z])
  IN CASE t = "stop" -> Return(h, z)
       [] t = "fail" -> Errorf(h, DidNotConverge(f.loop))
       [] OTHER -> /\ heap' = hAdv
                   /\ stack' = SetTop([f EXCEPT !.loop = advance(f.loop, h[z])])
                   /\ ret' = 0
                   /\ cur' = cur

---------------------------------------------------------------------------
(* value/sqrt.go *)

\* An activation record: the locals are addresses; x0 remembers the value the
\* argument had when the call was made.
SqrtFrame(x) ==
  [fn |-> "floatSqrt", pc |-> "entry", x |-> x, x0 |-> Zero, z |-> 0,
   zSquared |-> 0, num |-> 0, den |-> 0, loop |-> newLoop("sqrt", Zero, 1)]

SqrtDomainError == "square root of negative number"

\* floatSqrt with the negative case answering zero instead of failing.
SqrtNegativeReturnsZero ==
  /\ Running("floatSqrt", "entry")
  /\ Sign(heap[Top.x]) = -1
  /\ Return(newF(heap), Len(heap) + 1)
  /\ UNCHANGED <<last, called, nLoops, nEuler, getVars>>

\* case -1: Errorf("square root of negative number")
SqrtNegative ==
  /\ Running("floatSqrt", "entry")
  /\ Sign(heap[Top.x]) = -1
  /\ Errorf(heap, SqrtDomainError)
  /\ UNCHANGED <<last, called, nLoops, nEuler, getVars>>

\* case 0: return newF()
SqrtZero ==
  /\ Running("floatSqrt", "entry")
  /\ Sign(heap[Top.x]) = 0
  /\ Return(newF(heap), Len(heap) + 1)
  /\ UNCHANGED <<last, called, nLoops, nEuler, getVars>>

\* z := newF(); exp := x.MantExp(z); z.SetMantExp(z, exp/2); the three
\* intermediates; loop := newLoop("sqrt", x, 1)
SqrtStart ==
  /\ Running("floatSqrt", "entry")
  /\ Sign(heap[Top.x]) = 1
  /\ LET f == Top
         z == Len(heap) + 1
         exp == ExpOf(heap[f.x])
     IN \E h1 \in {newF(heap)} :
        \E h2 \in {W(h1, z, MantOf(h1[f.x]))} :
        \E h3 \in {W(h2, z, SetMantExp(h2[z], GoDiv(exp, 2)))} :
        \E h4 \in {newF(newF(newF(h3)))} :
          /\ heap' = h4
          /\ stack' = SetTop([f EXCEPT !.pc = "loop", !.z = z, !.zSquared = z + 1,
                                       !.num = z + 2, !.den = z + 3,
                                       !.loop = newLoop("sqrt", h4[f.x], 1)])
  /\ nLoops' = nLoops + 1
  /\ UNCHANGED <<ret, cur, last, called, nEuler, getVars>>

\* The Newton step with the controller's answer ignored: the loop is never left.
SqrtLoopNoBreak ==
  /\ Running("floatSqrt", "loop")
  /\ LET f == Top
     IN \E h1 \in {W(heap, f.zSquared, Mul(heap[f.z], heap[f.z]))} :
        \E h2 \in {W(h1, f.num, Sub(h1[f.zSquared], h1[f.x]))} :
        \E h3 \in {W(h2, f.den, Mul(h2[floatTwo], h2[f.z]))} :
        \E h4 \in {W(h3, f.num, Quo(h3[f.num], h3[f.den]))} :
          heap' = W(h4, f.z, Sub(h4[f.z], h4[f.num]))
  /\ UNCHANGED <<stack, ret, cur, last, called, nLoops, nEuler, getVars>>

\* One Newton step: z = z - (z*z - x) / (2*z)
SqrtLoop ==
  /\ Running("floatSqrt", "loop")
  /\ LET f == Top
     IN \E h1 \in {W(heap, f.zSquared, Mul(heap[f.z], heap[f.z]))} :
        \E h2 \in {W(h1, f.num, Sub(h1[f.zSquared], h1[f.x]))} :
        \E h3 \in {W(h2, f.den, Mul(h2[floatTwo], h2[f.z]))} :
        \E h4 \in {W(h3, f.num, Quo(h3[f.num], h3[f.den]))} :
        \E h5 \in {W(h4, f.z, Sub(h4[f.z], h4[f.num]))} :
          LoopEnd(h5, h5, f, f.z)
  /\ UNCHANGED <<last, called, nLoops, nEuler, getVars>>

\* A call: the caller waits at pc, the callee starts on the cell at arg.
Call(h, f, pc, g) ==
  /\ heap' = h
  /\ stack' = Push([f EXCEPT !.pc = pc], [g EXCEPT !.x0 = h[g.x]])
  /\ ret' = 0
  /\ cur' = cur
  /\ called' = called \cup {g.fn}

---------------------------------------------------------------------------
(* value/asin.go *)

AsinFrame(x) == [fn |-> "floatAsin", pc |-> "entry", x |-> x, x0 |-> Zero, z |-> 0]

AcosFrame(x) == [fn |-> "floatAcos", pc |-> "entry", x |-> x, x0 |-> Zero, z |-> 0]

AtanFrame(x) ==
  [fn |-> "floatAtan", pc |-> "entry", x |-> x, x0 |-> Zero, z |-> 0, n |-> 0,
   two |-> 0, term |-> 0, xN |-> 0, xSquared |-> 0, plus |-> TRUE,
   loop |-> newLoop("atan", Zero, 4)]

LargeFrame(x) ==
  [fn |-> "floatAtanLarge", pc |-> "entry", x |-> x, x0 |-> Zero, z |-> 0,
   n |-> 0, term |-> 0, xN |-> 0, xSquared |-> 0, plus |-> FALSE,
   loop |-> newLoop("atan", Zero, 4)]

\* z := newF().Set(floatPi); z.Quo(z, <the cell at two>): z is Len(h) + 1.
PiOver(h, two) ==
  LET z == Len(h) + 1
      h1 == W(newF(h), z, h[floatPi])
  IN W(h1, z, Quo(h1[z], h1[two]))

\* if x.Cmp(floatOne) == 0 { z := newF().Set(floatPi); return z.Quo(z, floatTwo) }
AsinOne ==
  /\ Running("floatAsin", "entry")
  /\ Cmp(heap[Top.x], heap[floatOne]) = 0
  /\ Return(PiOver(heap, floatTwo), Len(heap) + 1)
  /\ UNCHANGED <<last, called, nLoops, nEuler, getVars>>

\* asin(-1) with the final z.Neg(z) forgotten.
AsinMinusOneNoNeg ==
  /\ Running("floatAsin", "entry")
  /\ Cmp(heap[Top.x], heap[floatOne]) # 0
  /\ Cmp(heap[Top.x], heap[floatMinusOne]) = 0
  /\ Return(PiOver(heap, floatTwo), Len(heap) + 1)
  /\ UNCHANGED <<last, called, nLoops, nEuler, getVars>>

\* if x.Cmp(floatMinusOne) == 0 { ...; z.Quo(z, floatTwo); return z.Neg(z) }
AsinMinusOne ==
  /\ Running("floatAsin", "entry")
  /\ Cmp(heap[Top.x], heap[floatOne]) # 0
  /\ Cmp(heap[Top.x], heap[floatMinusOne]) = 0
  /\ LET z == Len(heap) + 1
     IN \E h1 \in {PiOver(heap, floatTwo)} :
          Return(W(h1, z, Neg(h1[z])), z)
  /\ UNCHANGED <<last, called, nLoops, nEuler, getVars>>

\* floatAsin with the subtraction turned round: z.Sub(z, floatOne).
AsinCallSqrtReversed ==
  /\ Running("floatAsin", "entry")
  /\ Cmp(heap[Top.x], heap[floatOne]) # 0
  /\ Cmp(heap[Top.x], heap[floatMinusOne]) # 0
  /\ LET f == Top
         z == Len(heap) + 1
     IN \E h1 \in {newF(heap)} :
        \E h2 \in {W(h1, z, Mul(h1[f.x], h1[f.x]))} :
        \E h3 \in {W(h2, z, Sub(h2[z], h2[floatOne]))} :
          Call(h3, [f EXCEPT !.z = z], "sqrtRet", SqrtFrame(z))
  /\ UNCHANGED <<last, nLoops, nEuler, getVars>>

\* z := newF(); z.Mul(x, x); z.Sub(floatOne, z); z = floatSqrt(z)
AsinCallSqrt ==
  /\ Running("floatAsin", "entry")
  /\ Cmp(heap[Top.x], heap[floatOne]) # 0
  /\ Cmp(heap[Top.x], heap[floatMinusOne]) # 0
  /\ LET f == Top
         z == Len(heap) + 1
     IN \E h1 \in {newF(heap)} :
        \E h2 \in {W(h1, z, Mul(h1[f.x], h1[f.x]))} :
        \E h3 \in {W(h2, z, Sub(h2[floatOne], h2[z]))} :
          Call(h3, [f EXCEPT !.z = z], "sqrtRet", SqrtFrame(z))
  /\ UNCHANGED <<last, nLoops, nEuler, getVars>>

\* z.Quo(x, z); return floatAtan(z)
AsinCallAtan ==
  /\ Running("floatAsin", "sqrtRet")
  /\ LET f == Top
         z == ret
     IN \E h1 \in {W(heap, z, Quo(heap[f.x], heap[z]))} :
          Call(h1, [f EXCEPT !.z = z], "atanRet", AtanFrame(z))
  /\ UNCHANGED <<last, nLoops, nEuler, getVars>>

AsinReturn ==
  /\ Running("floatAsin", "atanRet")
  /\ Return(heap, ret)
  /\ UNCHANGED <<last, called, nLoops, nEuler, getVars>>

\* z := newF().Set(floatPi); z.Quo(z, newF().SetInt64(2)); ... floatAsin(x)
AcosCallAsin ==
  /\ Running("floatAcos", "entry")
  /\ LET f == Top
         two == Len(heap) + 1
         z == Len(heap) + 2
     IN \E h1 \in {W(newF(heap), two, FromInt(2))} :
        \E h2 \in {PiOver(h1, two)} :
          Call(h2, [f EXCEPT !.z = z], "asinRet", AsinFrame(f.x))
  /\ UNCHANGED <<last, nLoops, nEuler, getVars>>

\* floatAcos with the operands exchanged: asin(x) - pi/2.
AcosReturnSwapped ==
  /\ Running("floatAcos", "asinRet")
  /\ LET f == Top
     IN Return(W(heap, f.z, Sub(heap[ret], heap[f.z])), f.z)
  /\ UNCHANGED <<last, called, nLoops, nEuler, getVars>>

\* return z.Sub(z, floatAsin(x))
AcosReturn ==
  /\ Running("floatAcos", "asinRet")
  /\ LET f == Top
     IN Return(W(heap, f.z, Sub(heap[f.z], heap[ret])), f.z)
  /\ UNCHANGED <<last, called, nLoops, nEuler, getVars>>

\* The sign reduction negating x itself: z := newF().Set(x.Neg(x)).
NegatedInPlace(h, x) ==
  LET z == Len(h) + 1
      h1 == W(h, x, Neg(h[x]))
  IN W(newF(h1), z, h1[x])

\* The sign reduction with the negation forgotten: z := newF().Set(x).
NegatedCopyNoNeg(h, x) == W(newF(h), Len(h) + 1, h[x])

\* z := newF().Set(x); z.Neg(z): the heap with the negated copy at Len(h) + 1.
NegatedCopy(h, x) ==
  LET z == Len(h) + 1
      h1 == W(newF(h), z, h[x])
  IN W(h1, z, Neg(h1[z]))

\* if x.Sign() < 0 { z := newF().Set(x); z = floatAtan(z.Neg(z)); ... }
AtanNegative ==
  /\ Running("floatAtan", "entry")
  /\ Sign(heap[Top.x]) < 0
  /\ Call(NegatedCopy(heap, Top.x), [Top EXCEPT !.z = Len(heap) + 1], "negRet",
          AtanFrame(Len(heap) + 1))
  /\ UNCHANGED <<last, nLoops, nEuler, getVars>>

\* The sign reduction returning atan(-x) as it is.
AtanNegReturnNoNeg ==
  /\ Running("floatAtan", "negRet")
  /\ Return(heap, ret)
  /\ UNCHANGED <<last, called, nLoops, nEuler, getVars>>

\* return z.Neg(z), z being what the recursive call returned
AtanNegReturn ==
  /\ Running("floatAtan", "negRet")
  /\ Return(W(heap, ret, Neg(heap[ret])), ret)
  /\ UNCHANGED <<last, called, nLoops, nEuler, getVars>>

\* tmp := newF().Set(floatOne); tmp.Sub(tmp, x); tmp.Abs(tmp): tmp is Len(h) + 1.
DistanceFromOne(h, x) ==
  LET tmp == Len(h) + 1
      h1 == W(newF(h), tmp, h[floatOne])
      h2 == W(h1, tmp, Sub(h1[tmp], h1[x]))
  IN W(h2, tmp, Abs(h2[tmp]))

\* A crossover of 0.75 in place of 0.5.
CrossoverWide == FromRat(3, 4)

\* newF().SetFloat64(0.5)
Crossover == FromRat(1, 2)

\* tmp.Cmp(newF().SetFloat64(0.5)) < 0
NearOne(h, x) == Cmp(DistanceFromOne(h, x)[Len(h) + 1], Crossover) < 0

\* The heap once the crossover test is made: tmp and the 0.5 are allocated.
Tested(h, x) == Append(DistanceFromOne(h, x), Crossover)

\* z := newF().Set(floatPi); z.Quo(z, newF().SetInt64(8)); y := floatSqrt(floatTwo)
AtanNearOne ==
  /\ Running("floatAtan", "entry")
  /\ Sign(heap[Top.x]) >= 0
  /\ NearOne(heap, Top.x)
  /\ LET f == Top
         eight == Len(heap) + 3
         z == Len(heap) + 4
     IN \E h1 \in {Tested(heap, f.x)} :
        \E h2 \in {W(newF(h1), eight, FromInt(8))} :
        \E h3 \in {PiOver(h2, eight)} :
          Call(h3, [f EXCEPT !.z = z], "sqrtRet", SqrtFrame(floatTwo))
  /\ nEuler' = nEuler + 1
  /\ UNCHANGED <<last, nLoops, getVars>>

\* y.Sub(y, floatOne); num = x - y; den = x*y + 1; floatAtan(num.Quo(num, den))
AtanEuler ==
  /\ Running("floatAtan", "sqrtRet")
  /\ LET f == Top
         y == ret
         num == Len(heap) + 1
         den == Len(heap) + 2
     IN \E h1 \in {W(heap, y, Sub(heap[y], heap[floatOne]))} :
        \E h2 \in {W(newF(h1), num, h1[f.x])} :
        \E h3 \in {W(h2, num, Sub(h2[num], h2[y]))} :
        \E h4 \in {W(newF(h3), den, h3[f.x])} :
        \E h5 \in {W(h4, den, Mul(h4[den], h4[y]))} :
        \E h6 \in {W(h5, den, Add(h5[den], h5[floatOne]))} :
        \E h7 \in {W(h6, num, Quo(h6[num], h6[den]))} :
          Call(h7, f, "eulerRet", AtanFrame(num))
  /\ UNCHANGED <<last, nLoops, nEuler, getVars>>

\* z = z.Add(z, floatAtan(...)); return z
AtanEulerReturn ==
  /\ Running("floatAtan", "eulerRet")
  /\ LET f == Top
     IN Return(W(heap, f.z, Add(heap[f.z], heap[ret])), f.z)
  /\ UNCHANGED <<last, called, nLoops, nEuler, getVars>>

\* if x.Cmp(floatOne) > 0 { return floatAtanLarge(x) }
AtanCallLarge ==
  /\ Running("floatAtan", "entry")
  /\ Sign(heap[Top.x]) >= 0
  /\ ~NearOne(heap, Top.x)
  /\ Cmp(heap[Top.x], heap[floatOne]) > 0
  /\ Call(Tested(heap, Top.x), Top, "largeRet", LargeFrame(Top.x))
  /\ UNCHANGED <<last, nLoops, nEuler, getVars>>

AtanLargeReturn ==
  /\ Running("floatAtan", "largeRet")
  /\ Return(heap, ret)
  /\ UNCHANGED <<last, called, nLoops, nEuler, getVars>>

\* The series for small values: n, two, term, xN, xSquared, z, plus, loop.
AtanSeriesStart ==
  /\ Running("floatAtan", "entry")
  /\ Sign(heap[Top.x]) >= 0
  /\ ~NearOne(heap, Top.x)
  /\ Cmp(heap[Top.x], heap[floatOne]) <= 0
  /\ LET f == Top
         n == Len(heap) + 3
     IN \E h0 \in {Tested(heap, f.x)} :
        \E h1 \in {W(newF(h0), n, h0[floatOne])} :
        \E h2 \in {W(newF(h1), n + 1, FromInt(2))} :
        \E h3 \in {newF(h2)} :
        \E h4 \in {W(newF(h3), n + 3, h3[f.x])} :
        \E h5 \in {W(newF(h4), n + 4, h4[f.x])} :
        \E h6 \in {W(h5, n + 4, Mul(h5[f.x], h5[f.x]))} :
        \E h7 \in {newF(h6)} :
          /\ heap' = h7
          /\ stack' = SetTop([f EXCEPT !.pc = "loop", !.n = n, !.two = n + 1,
                                       !.term = n + 2, !.xN = n + 3,
                                       !.xSquared = n + 4, !.z = n + 5, !.plus = TRUE,
                                       !.loop = newLoop("atan", h7[f.x], 4)])
  /\ nLoops' = nLoops + 1
  /\ UNCHANGED <<ret, cur, last, called, nEuler, getVars>>

\* if plus { z.Add(z, term) } else { z.Sub(z, term) }
Accumulate(h, f) ==
  W(h, f.z, IF f.plus THEN Add(h[f.z], h[f.term]) ELSE Sub(h[f.z], h[f.term]))

\* term = xN / n; z +-= term; plus = !plus; n += 2; xN *= xSquared
AtanLoop ==
  /\ Running("floatAtan", "loop")
  /\ LET f == Top
     IN \E h1 \in {W(heap, f.term, heap[f.xN])} :
        \E h2 \in {W(h1, f.term, Quo(h1[f.term], h1[f.n]))} :
        \E h3 \in {Accumulate(h2, f)} :
        \E h4 \in {W(h3, f.n, Add(h3[f.n], h3[f.two]))} :
        \E h5 \in {W(h4, f.xN, Mul(h4[f.xN], h4[f.xSquared]))} :
          LoopEnd(h3, h5, [f EXCEPT !.plus = ~f.plus], f.z)
  /\ UNCHANGED <<last, called, nLoops, nEuler, getVars>>

\* The series for large values: z starts at pi/2 and the first term is -1/x.
LargeStart ==
  /\ Running("floatAtanLarge", "entry")
  /\ LET f == Top
         n == Len(heap) + 1
     IN \E h1 \in {W(newF(heap), n, heap[floatOne])} :
        \E h2 \in {newF(h1)} :
        \E h3 \in {W(newF(h2), n + 2, h2[f.x])} :
        \E h4 \in {W(newF(h3), n + 3, h3[f.x])} :
        \E h5 \in {W(h4, n + 3, Mul(h4[f.x], h4[f.x]))} :
        \E h6 \in {PiOver(h5, floatTwo)} :
          /\ heap' = h6
          /\ stack' = SetTop([f EXCEPT !.pc = "loop", !.n = n, !.term = n + 1,
                                       !.xN = n + 2, !.xSquared = n + 3, !.z = n + 4,
                                       !.plus = FALSE,
                                       !.loop = newLoop("atan", h6[f.x], 4)])
  /\ nLoops' = nLoops + 1
  /\ UNCHANGED <<ret, cur, last, called, nEuler, getVars>>

\* term = 1 / (xN * n); z +-= term; plus = !plus; n += 2; xN *= xSquared
LargeLoop ==
  /\ Running("floatAtanLarge", "loop")
  /\ LET f == Top
     IN \E h1 \in {W(heap, f.term, heap[f.xN])} :
        \E h2 \in {W(h1, f.term, Mul(h1[f.term], h1[f.n]))} :
        \E h3 \in {W(h2, f.term, Quo(h2[floatOne], h2[f.term]))} :
        \E h4 \in {Accumulate(h3, f)} :
        \E h5 \in {W(h4, f.n, Add(h4[f.n], h4[floatTwo]))} :
        \E h6 \in {W(h5, f.xN, Mul(h5[f.xN], h5[f.xSquared]))} :
          LoopEnd(h4, h6, [f EXCEPT !.plus = ~f.plus], f.z)
  /\ UNCHANGED <<last, called, nLoops, nEuler, getVars>>

---------------------------------------------------------------------------
(* evalFloatFunc *)

FrameOf(fn, x) ==
  CASE fn = "floatSqrt" -> SqrtFrame(x)
    [] fn = "floatAsin" -> AsinFrame(x)
    [] fn = "floatAcos" -> AcosFrame(x)
    [] fn = "floatAtan" -> AtanFrame(x)

\* fn(floatSelf(nil, v).(BigFloat).Float): the value's own float is handed
\* over.  The shared constants are the package's: they outlive the call.
Begin(fn, v) ==
  /\ heap' = Append(SubSeq(heap, 1, 4), v)
  /\ stack' = <<[FrameOf(fn, ArgAddr) EXCEPT !.x0 = v]>>
  /\ ret' = 0
  /\ cur' = [fn |-> fn, arg |-> v, res |-> None, err |-> "", done |-> FALSE]
  /\ called' = {fn}
  /\ nLoops' = 0
  /\ nEuler' = 0

\* sqrt(v), asin(v), acos(v), atan(v)
evalFloatFunc(fn, v) ==
  /\ cur.done
  /\ Begin(fn, v)
  /\ last' = NoEval
  /\ UNCHANGED getVars

\* atan(-v) evaluated right after atan(v)
evalNegated ==
  /\ cur.done
  /\ cur.fn = "floatAtan"
  /\ last.fn = "none"
  /\ Begin("floatAtan", Neg(cur.arg))
  /\ last' = cur
  /\ UNCHANGED getVars

\* acos(v) evaluated right after asin(v)
evalAcosAfterAsin ==
  /\ cur.done
  /\ cur.fn = "floatAsin"
  /\ last.fn = "none"
  /\ Begin("floatAcos", cur.arg)
  /\ last' = cur
  /\ UNCHANGED getVars

Init ==
  /\ heap = ConstHeap
  /\ stack = <<>>
  /\ ret = 0
  /\ cur = NoEval
  /\ last = NoEval
  /\ called = {}
  /\ nLoops = 0
  /\ nEuler = 0
  /\ runDepth = 0
  /\ files = <<>>
  /\ panicking = "none"

Next ==
  \/ \E fn \in Funcs, v \in Inputs : evalFloatFunc(fn, v)
  \/ evalNegated
  \/ evalAcosAfterAsin
  \/ SqrtNegative
  \/ SqrtZero
  \/ SqrtStart
  \/ SqrtLoop
  \/ AsinOne
  \/ AsinMinusOne
  \/ AsinCallSqrt
  \/ AsinCallAtan
  \/ AsinReturn
  \/ AcosCallAsin
  \/ AcosReturn
  \/ AtanNegative
  \/ AtanNegReturn
  \/ AtanNearOne
  \/ AtanEuler
  \/ AtanEulerReturn
  \/ AtanCallLarge
  \/ AtanLargeReturn
  \/ AtanSeriesStart
  \/ AtanLoop
  \/ LargeStart
  \/ LargeLoop

Spec == Init /\ [][Next]_vars

\* Every started step is eventually taken: the interpreter is one thread
\* that runs an evaluation to its end.
Step == ~cur.done /\ Next

LiveSpec == Spec /\ WF_vars(Step)

---------------------------------------------------------------------------
(* parse/special.go: runFromFile *)

\* if runDepth > 10
MaxGetDepth == 10

\* A )get is read where no panic is in flight: at the top level, or as a
\* line of the file being run.
CanGet ==
  /\ panicking = "none"
  /\ files # <<>> => files[Len(files)] = "lines"

\* runDepth++, the depth test passes and the defer is registered.
RunEnter ==
  /\ CanGet
  /\ runDepth + 1 <= MaxGetDepth
  /\ runDepth' = runDepth + 1
  /\ files' = Append(files, "open")
  /\ UNCHANGED <<panicking, mathVars>>

\* runDepth++ and p.errorf("get %q nested too deep"): the panic leaves
\* runFromFile before its defer statement is reached.
RunTooDeep ==
  /\ CanGet
  /\ runDepth + 1 > MaxGetDepth
  /\ runDepth < MaxLeak
  /\ runDepth' = runDepth + 1
  /\ panicking' = "error"
  /\ UNCHANGED <<files, mathVars>>

\* fd, err := os.Open(name) succeeds
OpenOk ==
  /\ panicking = "none"
  /\ files # <<>> /\ files[Len(files)] = "open"
  /\ files' = [files EXCEPT ![Len(files)] = "lines"]
  /\ UNCHANGED <<runDepth, panicking, mathVars>>

\* os.Open fails: p.errorf("%s", err)
OpenFails ==
  /\ panicking = "none"
  /\ files # <<>> /\ files[Len(files)] = "open"
  /\ panicking' = "error"
  /\ UNCHANGED <<runDepth, files, mathVars>>

\* parser.Line() or val.Eval panics with a value.Error
LineError ==
  /\ panicking = "none"
  /\ files # <<>> /\ files[Len(files)] = "lines"
  /\ panicking' = "error"
  /\ UNCHANGED <<runDepth, files, mathVars>>

\* ... or with anything else
LinePanic ==
  /\ panicking = "none"
  /\ files # <<>> /\ files[Len(files)] = "lines"
  /\ panicking' = "other"
  /\ UNCHANGED <<runDepth, files, mathVars>>

\* if !ok { return }: the deferred function runs, recover() is nil.
EndOfFile ==
  /\ panicking = "none"
  /\ files # <<>> /\ files[Len(files)] = "lines"
  /\ runDepth' = runDepth - 1
  /\ files' = SubSeq(files, 1, Len(files) - 1)
  /\ UNCHANGED <<panicking, mathVars>>

\* The deferred function of the innermost registered activation:
\* runDepth--, a value.Error is printed and the call returns, anything else
\* is panicked again.
Deferred ==
  /\ panicking \in {"error", "other"}
  /\ files # <<>>
  /\ runDepth' = runDepth - 1
  /\ files' = SubSeq(files, 1, Len(files) - 1)
  /\ panicking' = IF panicking = "error" THEN "none" ELSE "other"
  /\ UNCHANGED mathVars

\* A panic that leaves the outermost runFromFile reaches the interpreter's
\* main loop, which reports a value.Error and goes on; any other panic ends
\* the program.
TopLevel ==
  /\ panicking \in {"error", "other"}
  /\ files = <<>>
  /\ panicking' = IF panicking = "error" THEN "none" ELSE "crashed"
  /\ UNCHANGED <<runDepth, files, mathVars>>

NextGet ==
  \/ RunEnter
  \/ RunTooDeep
  \/ OpenOk
  \/ OpenFails
  \/ LineError
  \/ LinePanic
  \/ EndOfFile
  \/ Deferred
  \/ TopLevel

SpecGet == Init /\ [][NextGet]_vars

---------------------------------------------------------------------------
(* The claims *)

Frames == 1 .. Len(stack)

\* |v| > 1: outside the domain of asin and acos.
Outside(v) == Cmp(Abs(v), floatOneV) > 0

HalfPi == Quo(floatPiV, floatTwoV)

\* One unit in the last place of v.
Ulp(v) == [m |-> Pow2(Prec - 1), e |-> v.e - (Prec - 1)]

\* The number of nested floatAtan activations.
AtanDepth == Cardinality({i \in Frames : stack[i].fn = "floatAtan"})

\* Activation i is floatAtan's recursion on the Euler-transformed argument.
EulerCallee(i) ==
  /\ i > 1
  /\ stack[i].fn = "floatAtan"
  /\ stack[i - 1].fn = "floatAtan"
  /\ stack[i - 1].pc = "eulerRet"

\* C1: sqrt of a negative x raises "square root of negative number", yields
\* no value, and neither creates a convergence loop nor runs a Newton step.
C1_SqrtNegativeFails ==
  (cur.fn = "floatSqrt" /\ Sign(cur.arg) < 0) =>
    /\ nLoops = 0
    /\ \A i \in Frames : stack[i].pc # "loop"
    /\ cur.res = None
    /\ cur.done => cur.err = SqrtDomainError

C1_Witness ==
  /\ cur.fn = "floatSqrt"
  /\ Sign(cur.arg) < 0
  /\ cur.done
  /\ cur.err = SqrtDomainError

\* C2: for |x| > 1, asin and acos fail with floatSqrt's domain error, raised
\* on the negative 1 - x*x; floatAtan is never entered, no loop is created
\* and no value is produced.
C2_OutOfDomainFails ==
  (cur.fn \in {"floatAsin", "floatAcos"} /\ Outside(cur.arg)) =>
    /\ "floatAtan" \notin called
    /\ nLoops = 0
    /\ cur.res = None
    /\ \A i \in Frames : stack[i].fn = "floatSqrt" => Sign(stack[i].x0) < 0
    /\ cur.done => cur.err = SqrtDomainError

C2_Witness ==
  /\ cur.fn = "floatAcos"
  /\ Outside(cur.arg)
  /\ "floatSqrt" \in called
  /\ cur.done
  /\ cur.err = SqrtDomainError

\* C3: asin(1) is pi/2 and asin(-1) is -pi/2, floatPi halved once, with no
\* call of floatSqrt or floatAtan and no loop.
C3_AsinBoundary ==
  (cur.fn = "floatAsin" /\ cur.arg \in {floatOneV, floatMinusOneV}) =>
    /\ called = {"floatAsin"}
    /\ nLoops = 0
    /\ cur.done =>
         /\ cur.err = ""
         /\ cur.res = IF cur.arg = floatOneV THEN HalfPi ELSE Neg(HalfPi)

C3_Witness ==
  /\ cur.fn = "floatAsin"
  /\ cur.arg = floatMinusOneV
  /\ cur.done
  /\ cur.res = Neg(HalfPi)

\* C4: atan(-x) is exactly -atan(x): an activation on a negative argument
\* does nothing but recurse on -x and negate, whatever branch -x then takes.
C4_SignSymmetry ==
  /\ (cur.done /\ cur.fn = "floatAtan" /\ last.fn = "floatAtan") =>
       /\ cur.arg = Neg(last.arg)
       /\ cur.err = last.err
       /\ cur.res = Neg(last.res)
  /\ \A i \in Frames :
       (stack[i].fn = "floatAtan" /\ Sign(stack[i].x0) < 0) =>
         stack[i].pc \in {"entry", "negRet"}

C4_Witness ==
  /\ cur.done
  /\ cur.fn = "floatAtan"
  /\ last.fn = "floatAtan"
  /\ Sign(cur.arg) < 0
  /\ nEuler > 0
  /\ cur.err = ""
  /\ cur.res = Neg(last.res)

\* acos(x) evaluated right after asin(x), for x in [-1, 1].
AcosPair ==
  /\ cur.done
  /\ cur.fn = "floatAcos"
  /\ last.fn = "floatAsin"
  /\ ~Outside(cur.arg)

\* C5 as stated: acos(x) is pi/2 - asin(x) with asin's own pi/2, acos(1) is
\* exactly 0, and acos(x) + asin(x) equals pi/2.
C5_SumIsExactlyHalfPi ==
  AcosPair =>
    /\ cur.err = ""
    /\ cur.res = Sub(HalfPi, last.res)
    /\ cur.arg = floatOneV => cur.res = Zero
    /\ Add(cur.res, last.res) = HalfPi

\* C5, amended: acos(x) is pi/2 - asin(x) with asin's own pi/2, acos(1) is
\* exactly 0, and acos(x) + asin(x) is within one unit in the last place of
\* pi/2.
C5_AcosIsHalfPiMinusAsin ==
  AcosPair =>
    /\ cur.err = ""
    /\ cur.res = Sub(HalfPi, last.res)
    /\ cur.arg = floatOneV => cur.res = Zero
    /\ Cmp(Abs(Sub(Add(cur.res, last.res), HalfPi)), Ulp(HalfPi)) <= 0

C5_Witness ==
  /\ AcosPair
  /\ cur.err = ""
  /\ cur.res = Sub(HalfPi, last.res)
  /\ Add(cur.res, last.res) # HalfPi

\* C6: no evaluation writes the shared constants, the value handed to
\* evalFloatFunc, or the argument of any nested call.
C6_InputsUnchanged ==
  /\ SubSeq(heap, 1, 4) = ConstHeap
  /\ Len(heap) >= ArgAddr => heap[ArgAddr] = cur.arg
  /\ \A i \in Frames : heap[stack[i].x] = stack[i].x0

C6_Witness ==
  /\ cur.done
  /\ cur.fn = "floatAcos"
  /\ Sign(cur.arg) < 0
  /\ cur.err = ""
  /\ nEuler > 0
  /\ heap[ArgAddr] = cur.arg

C8_RewriteAtMostOnce ==
  /\ nEuler <= 1
  /\ \A i \in Frames : EulerCallee(i) => ~NearOne(heap, stack[i].x)

\* C8, amended: the transformed argument lies strictly between 0 and 0.7; it
\* may itself be within 0.5 of 1, the rewrite then happens a second time, and
\* the second transformed argument is not within 0.5 of 1: at most two
\* rewrites per evaluation.
C8_RewriteAtMostTwice ==
  /\ nEuler <= 2
  /\ \A i \in Frames :
       EulerCallee(i) =>
         /\ Sign(stack[i].x0) > 0
         /\ Cmp(stack[i].x0, FromRat(7, 10)) < 0
         /\ EulerCallee(i - 1) => ~NearOne(heap, stack[i].x)

C8_Witness ==
  /\ nEuler = 2
  /\ cur.done
  /\ cur.err = ""

\* C9 as stated: never more than 3 nested floatAtan activations.
C9_DepthAtMostThree == AtanDepth <= 3

\* C9, amended: never more than 4 nested floatAtan activations (the sign
\* reduction, two near-one reductions, the series).
C9_DepthAtMostFour == AtanDepth <= 4

C9_Witness ==
  /\ AtanDepth = 4
  /\ Top.fn = "floatAtan"
  /\ Top.pc = "loop"

\* C10: runDepth is balanced: it is 0 whenever no file is being run and no
\* panic is in flight.
C10_RunDepthBalanced ==
  (files = <<>> /\ panicking = "none") => runDepth = 0
=============================================================================
